---- MODULE Spec2Model ----
(***************************************************************************)
(* Model of fefix's code generator, src/fefix/src/codegen.rs.              *)
(*                                                                         *)
(* Text is modelled as a sequence of tokens.  A name that goes through a   *)
(* case conversion (a field name, a component name, the description of an  *)
(* enum variant) is a sequence of one-character strings, so that the       *)
(* conversions of the heck crate work on its characters.  A literal of a   *)
(* format string is one token ("::dtf::CheckSum"), and format!'s           *)
(* interpolation is the concatenation of token sequences.  An              *)
(* Option<T> is a sequence of length at most one.                          *)
(***************************************************************************)
EXTENDS Integers, Sequences, FiniteSets, TLC

VARIABLES
  field,      \* the Field a resolver or field_def call is made on
  owned,      \* Option: the result of suggested_type on field
  lifetime,   \* Option: the result of suggested_type_with_lifetime on field
  emitted,    \* Option: the result of field_def on field
  message,    \* the Message that message() is called on
  member,     \* Option: the last translate_layout_item_to_struct_field call
  record,     \* Option: the result of message() on message
  dict,       \* the Dictionary that fields() is called on
  generated   \* per import style, Option: the result of fields() on dict

vars ==
  <<field, owned, lifetime, emitted, message, member, record, dict, generated>>

None == <<>>

Some(x) == <<x>>

(***************************************************************************)
(* Characters, and the case conversions of the heck crate                  *)
(***************************************************************************)
Lowers ==
  <<"a","b","c","d","e","f","g","h","i","j","k","l","m",
    "n","o","p","q","r","s","t","u","v","w","x","y","z">>

Uppers ==
  <<"A","B","C","D","E","F","G","H","I","J","K","L","M",
    "N","O","P","Q","R","S","T","U","V","W","X","Y","Z">>

AsciiDigits == {"0","1","2","3","4","5","6","7","8","9"}

is_lowercase(c) == \E i \in 1..Len(Lowers) : Lowers[i] = c

is_uppercase(c) == \E i \in 1..Len(Uppers) : Uppers[i] = c

is_ascii_digit(c) == c \in AsciiDigits

to_uppercase(c) ==
  IF is_lowercase(c)
    THEN Uppers[CHOOSE i \in 1..Len(Lowers) : Lowers[i] = c]
    ELSE c

to_lowercase(c) ==
  IF is_uppercase(c)
    THEN Lowers[CHOOSE i \in 1..Len(Uppers) : Uppers[i] = c]
    ELSE c

\* heck::transform's scan of one word: the list of the sub-words it hands to
\* with_word.  i is the current character, init the start of the pending
\* sub-word, mode the WordMode.  Underscores are skipped; a boundary falls
\* after a character when the next one is an underscore or the case goes from
\* lower to upper, and before an upper-case character that follows upper-case
\* ones and precedes a lower-case one.
RECURSIVE heck_scan(_, _, _, _, _)
heck_scan(w, i, init, mode, acc) ==
  IF i > Len(w) THEN acc
  ELSE LET c == w[i] IN
    IF c = "_"
      THEN heck_scan(w, i + 1, IF init = i THEN init + 1 ELSE init, mode, acc)
    ELSE IF i < Len(w)
      THEN LET next == w[i + 1]
               next_mode == IF is_lowercase(c) THEN "Lowercase"
                            ELSE IF is_uppercase(c) THEN "Uppercase"
                            ELSE mode
           IN IF next = "_" \/ (next_mode = "Lowercase" /\ is_uppercase(next))
                THEN heck_scan(w, i + 1, i + 1, "Boundary",
                               Append(acc, SubSeq(w, init, i)))
              ELSE IF mode = "Uppercase" /\ is_uppercase(c) /\ is_lowercase(next)
                THEN heck_scan(w, i + 1, i, "Boundary",
                               Append(acc, SubSeq(w, init, i - 1)))
              ELSE heck_scan(w, i + 1, init, next_mode, acc)
    ELSE Append(acc, SubSeq(w, init, Len(w)))

\* The names of this model hold letters, digits and underscores only, which
\* unicode_words keeps together as one word (and drops when no character of
\* it is alphanumeric, where the scan yields no sub-word either).
heck_words(s) == heck_scan(s, 1, 1, "Boundary", <<>>)

capitalize(word) ==
  [i \in 1..Len(word) |->
     IF i = 1 THEN to_uppercase(word[i]) ELSE to_lowercase(word[i])]

uppercase(word) == [i \in 1..Len(word) |-> to_uppercase(word[i])]

lowercase(word) == [i \in 1..Len(word) |-> to_lowercase(word[i])]

RECURSIVE JoinWords(_, _)
JoinWords(words, sep) ==
  IF words = <<>> THEN <<>>
  ELSE IF Len(words) = 1 THEN words[1]
  ELSE words[1] \o sep \o JoinWords(Tail(words), sep)

to_camel_case(s) ==
  LET ws == heck_words(s)
  IN JoinWords([i \in 1..Len(ws) |-> capitalize(ws[i])], <<>>)

to_shouty_snake_case(s) ==
  LET ws == heck_words(s)
  IN JoinWords([i \in 1..Len(ws) |-> uppercase(ws[i])], <<"_">>)

to_snake_case(s) ==
  LET ws == heck_words(s)
  IN JoinWords([i \in 1..Len(ws) |-> lowercase(ws[i])], <<"_">>)

ends_with(s, suffix) ==
  /\ Len(s) >= Len(suffix)
  /\ SubSeq(s, Len(s) - Len(suffix) + 1, Len(s)) = suffix

(***************************************************************************)
(* Data types                                                              *)
(***************************************************************************)
\* The variants of DataType that suggested_type and
\* suggested_type_with_lifetime name, the floating-point ones, and two that
\* only their `_` arm takes.
TableDataTypes ==
  {"String", "Char", "Boolean", "Country", "Currency", "Exchange", "Data",
   "Length", "DayOfMonth", "Int", "Language", "SeqNum", "NumInGroup",
   "UtcDateOnly", "UtcTimeOnly", "UtcTimestamp"}

FloatDataTypes == {"Float", "Price", "Qty", "Amt"}

OtherDataTypes == {"MonthYear", "TagNum"}

DataType == TableDataTypes \cup FloatDataTypes \cup OtherDataTypes

\* DataType::base_type: the base category of a data type.
base_type(data_type) ==
  IF data_type \in FloatDataTypes THEN "Float"
  ELSE IF data_type \in {"Int", "Length", "DayOfMonth", "SeqNum",
                         "NumInGroup", "TagNum"} THEN "Int"
  ELSE IF data_type \in {"Char", "Boolean"} THEN "Char"
  ELSE "String"

ChecksumTag == 10

(***************************************************************************)
(* Type Resolver                                                           *)
(***************************************************************************)
\* The match of suggested_type.
owned_table(data_type, fefix_path) ==
  CASE data_type = "String" -> <<"&[u8]">>
    [] data_type = "Char" -> <<"u8">>
    [] data_type = "Boolean" -> <<"bool">>
    [] data_type = "Country" -> <<"&[u8; 2]">>
    [] data_type = "Currency" -> <<"&[u8; 3]">>
    [] data_type = "Exchange" -> <<"&[u8; 4]">>
    [] data_type = "Data" -> <<"&[u8]">>
    [] data_type = "Length" -> <<"usize">>
    [] data_type = "DayOfMonth" -> <<"u32">>
    [] data_type = "Int" -> <<"i64">>
    [] data_type = "Language" -> <<"&[u8; 2]">>
    [] data_type = "SeqNum" -> <<"u64">>
    [] data_type = "NumInGroup" -> <<"usize">>
    [] data_type = "UtcDateOnly" -> <<fefix_path, "::dtf::Date">>
    [] data_type = "UtcTimeOnly" -> <<fefix_path, "::dtf::Time">>
    [] data_type = "UtcTimestamp" -> <<fefix_path, "::dtf::Timestamp">>
    [] OTHER -> <<"&[u8]">>

\* suggested_type without its floating-point rule: a Float-based type falls
\* through to the match.
suggested_type_no_float(tag, data_type, enum_type_name, fefix_path) ==
  IF enum_type_name # None THEN enum_type_name[1]
  ELSE IF tag = ChecksumTag THEN <<fefix_path, "::dtf::CheckSum">>
  ELSE owned_table(data_type, fefix_path)

\* suggested_type qualifying the enum's name with the import root too.
suggested_type_qualified_enum(tag, data_type, enum_type_name, fefix_path) ==
  IF enum_type_name # None THEN <<fefix_path, "::">> \o enum_type_name[1]
  ELSE IF tag = ChecksumTag THEN <<fefix_path, "::dtf::CheckSum">>
  ELSE IF base_type(data_type) = "Float" THEN <<"rust_decimal::Decimal">>
  ELSE owned_table(data_type, fefix_path)

suggested_type(tag, data_type, enum_type_name, fefix_path) ==
  IF enum_type_name # None THEN enum_type_name[1]
  ELSE IF tag = ChecksumTag THEN <<fefix_path, "::dtf::CheckSum">>
  ELSE IF base_type(data_type) = "Float" THEN <<"rust_decimal::Decimal">>
  ELSE owned_table(data_type, fefix_path)

\* The match of suggested_type_with_lifetime.
lifetime_table(data_type) ==
  CASE data_type = "String" -> <<"&'a [u8]">>
    [] data_type = "Char" -> <<"u8">>
    [] data_type = "Boolean" -> <<"bool">>
    [] data_type = "Country" -> <<"[u8; 2]">>
    [] data_type = "Currency" -> <<"[u8; 3]">>
    [] data_type = "Exchange" -> <<"[u8; 4]">>
    [] data_type = "Data" -> <<"&'a [u8]">>
    [] data_type = "Length" -> <<"usize">>
    [] data_type = "DayOfMonth" -> <<"u32">>
    [] data_type = "Int" -> <<"i64">>
    [] data_type = "Language" -> <<"[u8; 2]">>
    [] data_type = "SeqNum" -> <<"u64">>
    [] data_type = "NumInGroup" -> <<"usize">>
    [] data_type = "UtcDateOnly" -> <<"crate", "::dtf::Date">>
    [] data_type = "UtcTimeOnly" -> <<"crate", "::dtf::Time">>
    [] data_type = "UtcTimestamp" -> <<"crate", "::dtf::Timestamp">>
    [] OTHER -> <<"&'a [u8]">>

\* suggested_type_with_lifetime whose table has drifted from suggested_type's:
\* the integer-like Length is left to the `_` arm.
suggested_type_with_lifetime_drift(tag, data_type) ==
  IF tag = ChecksumTag THEN <<"crate", "::dtf::CheckSum">>
  ELSE IF base_type(data_type) = "Float" THEN <<"rust_decimal::Decimal">>
  ELSE IF data_type = "Length" THEN <<"&'a [u8]">>
  ELSE lifetime_table(data_type)

suggested_type_with_lifetime(tag, data_type) ==
  IF tag = ChecksumTag THEN <<"crate", "::dtf::CheckSum">>
  ELSE IF base_type(data_type) = "Float" THEN <<"rust_decimal::Decimal">>
  ELSE lifetime_table(data_type)

\* make_type_optional with the test of `required` inverted.
make_type_optional_inverted(required, typ) ==
  IF ~required THEN typ
  ELSE <<"::std::option::Option<">> \o typ \o <<">">>

make_type_optional(required, typ) ==
  IF required THEN typ
  ELSE <<"::std::option::Option<">> \o typ \o <<">">>

(***************************************************************************)
(* Inputs                                                                  *)
(***************************************************************************)
CheckSumName == <<"C","h","e","c","k","S","u","m">>

OrderQtyName == <<"O","r","d","e","r","Q","t","y">>

SecureDataLenName == <<"S","e","c","u","r","e","D","a","t","a","L","e","n">>

\* The fields of the dictionary the calls are made on: tag and name.
Tags == {ChecksumTag, 38, 90}

TagName(tag) ==
  CASE tag = ChecksumTag -> CheckSumName
    [] tag = 38 -> OrderQtyName
    [] OTHER -> SecureDataLenName

FefixPaths == {"fefix", "crate"}

\* An enum variant: its wire value and its description.
Variant(value, description) == [value |-> value, description |-> description]

BuySell ==
  <<Variant("1", <<"B","U","Y">>), Variant("2", <<"S","E","L","L">>)>>

\* A Field: data_type is what field.data_type().basetype() hands to the
\* resolver, a DataType; enums is None, or Some(the sequence of its variants).
Field(tag, data_type, enums) ==
  [tag |-> tag, name |-> TagName(tag), data_type |-> data_type,
   enums |-> enums]

(***************************************************************************)
(* The resolver called on a field in its two modes                         *)
(***************************************************************************)
ResolveFields ==
  {Field(tag, data_type, enums) :
     tag \in Tags, data_type \in DataType, enums \in {None, Some(BuySell)}}

InitResolve ==
  /\ field \in ResolveFields
  /\ owned = None /\ lifetime = None /\ emitted = None
  /\ message = None /\ member = None /\ record = None
  /\ dict = None /\ generated = None

\* The name field_def gives the enum of a field with variants.
enum_type_name(f) ==
  IF f.enums # None THEN Some(to_camel_case(f.name)) ELSE None

\* A call of suggested_type, as field_def makes it on field.
SuggestedType ==
  \E fefix_path \in FefixPaths :
    /\ owned' = Some([fefix_path |-> fefix_path,
                      ret |-> suggested_type(field.tag, field.data_type,
                                             enum_type_name(field),
                                             fefix_path)])
    /\ UNCHANGED <<field, lifetime, emitted, message, member, record, dict,
                   generated>>

\* A call of suggested_type_with_lifetime, as
\* translate_layout_item_to_struct_field makes it on field.
SuggestedTypeWithLifetime ==
  /\ lifetime' = Some([ret |-> suggested_type_with_lifetime(field.tag,
                                                            field.data_type)])
  /\ UNCHANGED <<field, owned, emitted, message, member, record, dict,
                 generated>>

NextResolve == SuggestedType \/ SuggestedTypeWithLifetime

SpecResolve == InitResolve /\ [][NextResolve]_vars

\* The class of type a resolved type expression spells.
TypeClass(t) ==
  CASE t \in {<<"&[u8]">>, <<"&'a [u8]">>} -> "bytes"
    [] t \in {<<"&[u8; 2]">>, <<"[u8; 2]">>} -> "bytes2"
    [] t \in {<<"&[u8; 3]">>, <<"[u8; 3]">>} -> "bytes3"
    [] t \in {<<"&[u8; 4]">>, <<"[u8; 4]">>} -> "bytes4"
    [] t = <<"u8">> -> "u8"
    [] t = <<"bool">> -> "bool"
    [] t = <<"usize">> -> "usize"
    [] t = <<"u32">> -> "u32"
    [] t = <<"i64">> -> "i64"
    [] t = <<"u64">> -> "u64"
    [] t = <<"rust_decimal::Decimal">> -> "decimal"
    [] t \in {<<"f32">>, <<"f64">>} -> "float"
    [] Len(t) = 2 /\ t[1] \in FefixPaths /\ t[2] = "::dtf::CheckSum" -> "checksum"
    [] Len(t) = 2 /\ t[1] \in FefixPaths /\ t[2] = "::dtf::Date" -> "date"
    [] Len(t) = 2 /\ t[1] \in FefixPaths /\ t[2] = "::dtf::Time" -> "time"
    [] Len(t) = 2 /\ t[1] \in FefixPaths /\ t[2] = "::dtf::Timestamp" -> "timestamp"
    [] OTHER -> "enum"

\* The classes whose two spellings differ: the borrowed byte strings and byte
\* arrays, and the dtf types, which the owned mode qualifies with fefix_path.
BytesClasses == {"bytes", "bytes2", "bytes3", "bytes4"}

DtfClasses == {"checksum", "date", "time", "timestamp"}

\* C1 (as claimed): in both resolution modes a field whose tag is the
\* checksum tag resolves to the checksum type, whatever its data type and
\* whether or not it has enumerated variants.
C1_ChecksumTagAlwaysChecksumType ==
  field.tag = ChecksumTag =>
    /\ owned # None
         => owned[1].ret = <<owned[1].fefix_path, "::dtf::CheckSum">>
    /\ lifetime # None
         => lifetime[1].ret = <<"crate", "::dtf::CheckSum">>

\* C3 (as claimed): in both resolution modes a field whose data type's base
\* category is floating-point resolves to the decimal type.
C3_FloatAlwaysDecimal ==
  base_type(field.data_type) = "Float" =>
    /\ owned # None => owned[1].ret = <<"rust_decimal::Decimal">>
    /\ lifetime # None => lifetime[1].ret = <<"rust_decimal::Decimal">>

\* C3 (amended): a field whose data type's base category is floating-point
\* never resolves to a native float, in either mode; it resolves to the
\* decimal type when its tag is not the checksum tag and, in the owned mode,
\* it has no enumerated variants; otherwise the rule above the floating-point
\* one decides (the enum's name in the owned mode for a field with variants,
\* the checksum type for the checksum tag).
C3_FloatDecimalUnlessChecksumOrEnum ==
  base_type(field.data_type) = "Float" =>
    /\ owned # None =>
         /\ TypeClass(owned[1].ret) # "float"
         /\ owned[1].ret =
              IF field.enums # None THEN to_camel_case(field.name)
              ELSE IF field.tag = ChecksumTag
                THEN <<owned[1].fefix_path, "::dtf::CheckSum">>
              ELSE <<"rust_decimal::Decimal">>
    /\ lifetime # None =>
         /\ TypeClass(lifetime[1].ret) # "float"
         /\ lifetime[1].ret =
              IF field.tag = ChecksumTag THEN <<"crate", "::dtf::CheckSum">>
              ELSE <<"rust_decimal::Decimal">>

\* Both modes have resolved a floating-point field without variants that is
\* not the checksum field, to the decimal type.
C3_Witness ==
  /\ field.data_type = "Price" /\ field.tag # ChecksumTag
  /\ field.enums = None
  /\ owned # None /\ owned[1].ret = <<"rust_decimal::Decimal">>
  /\ lifetime # None /\ lifetime[1].ret = <<"rust_decimal::Decimal">>

\* C10 (as claimed): on every field (tag, data_type, has_enum) the two modes
\* select the same class of type, and their results differ only in the
\* spelling of the string/bytes classes.
C10_ModesAgreeOnEveryInput ==
  (owned # None /\ lifetime # None) =>
    /\ TypeClass(owned[1].ret) = TypeClass(lifetime[1].ret)
    /\ TypeClass(owned[1].ret) \notin BytesClasses
         => owned[1].ret = lifetime[1].ret

\* C10 (amended): suggested_type_with_lifetime has no has_enum rule.  On a
\* field without enumerated variants the two modes select the same class of
\* type, and their results differ only in the spelling of the bytes and
\* byte-array classes and in the path that qualifies the dtf types
\* (fefix_path in the owned mode, crate in the other); on a field with
\* variants the lifetime mode yields a type of the same class as the one the
\* owned mode yields for the same field without variants.
C10_ModesAgreeWithoutEnum ==
  (owned # None /\ lifetime # None) =>
    /\ field.enums = None =>
         /\ TypeClass(owned[1].ret) = TypeClass(lifetime[1].ret)
         /\ TypeClass(owned[1].ret) \notin (BytesClasses \cup DtfClasses)
              => owned[1].ret = lifetime[1].ret
         /\ TypeClass(owned[1].ret) \in DtfClasses
              => /\ owned[1].ret[2] = lifetime[1].ret[2]
                 /\ owned[1].ret[1] = owned[1].fefix_path
                 /\ lifetime[1].ret[1] = "crate"
    /\ field.enums # None =>
         TypeClass(lifetime[1].ret) =
           TypeClass(suggested_type(field.tag, field.data_type, None,
                                    owned[1].fefix_path))

\* Both modes were called on the same integer-like field without variants
\* and resolved it to the size type.
C10_Witness ==
  /\ field.data_type = "Length" /\ field.tag # ChecksumTag
  /\ field.enums = None
  /\ owned # None /\ owned[1].ret = <<"usize">>
  /\ lifetime # None /\ lifetime[1].ret = <<"usize">>

(***************************************************************************)
(* Field Emitter                                                           *)
(***************************************************************************)
DigitChars == <<"0","1","2","3","4","5","6","7","8","9">>

\* The decimal digits of a natural number (TagU16's and usize's to_string).
RECURSIVE to_string(_)
to_string(n) ==
  IF n < 10 THEN <<DigitChars[n + 1]>>
  ELSE to_string(n \div 10) \o <<DigitChars[(n % 10) + 1]>>

\* e.description().chars().next().unwrap() panics on an empty description.
first_char_panics(e) == e.description = <<>>

\* One variant of the enum: its doc comment, its fefix(variant = ...)
\* attribute and its identifier.
enum_variant(e) ==
  [doc |-> <<"Field variant '", e.value, "'.">>,
   variant |-> e.value,
   ident |-> (IF is_ascii_digit(e.description[1]) THEN <<"N">> ELSE <<>>)
               \o to_camel_case(e.description)]

\* variants.map(...).collect()
collect_variants(variants) ==
  [i \in 1..Len(variants) |-> enum_variant(variants[i])]

\* The enum declaration of a field with variants, as a sequence of zero or
\* one declaration (String::new() for a field without variants).
enum_declaration(f) ==
  IF f.enums # None
    THEN <<[decl |-> "enum",
            struct_name |-> to_shouty_snake_case(f.name),
            identifier |-> to_camel_case(f.name),
            variants |-> collect_variants(f.enums[1])]>>
    ELSE <<>>

Panicked == [returned |-> FALSE, text |-> <<>>]

Returned(text) == [returned |-> TRUE, text |-> text]

\* field_def: the constant's declaration, followed by the enum's.  The
\* constant's data_type is the name of the DataType variant, which is how
\* the model writes a DataType.
field_def(f, fefix_path) ==
  IF f.enums # None /\ \E i \in 1..Len(f.enums[1]) : first_char_panics(f.enums[1][i])
    THEN Panicked
    ELSE Returned(
      <<[decl |-> "const",
         doc |-> <<f.name, to_string(f.tag)>>,
         identifier |-> to_shouty_snake_case(f.name),
         type_param |-> suggested_type(f.tag, f.data_type, enum_type_name(f),
                                       fefix_path),
         name |-> f.name,
         tag |-> to_string(f.tag),
         is_group_leader |-> ends_with(f.name, <<"L","e","n">>),
         data_type |-> f.data_type]>>
      \o enum_declaration(f))

(***************************************************************************)
(* field_def called on a field                                             *)
(***************************************************************************)
MaxDescLen == 2

MaxVariants == 2

DescChars == {"a", "B", "1", "_"}

\* The descriptions of at most n characters.
Descriptions(n) == UNION {[1..k -> DescChars] : k \in 0..n}

\* The lists of at most n variants: the wire values are "1", "2", ...
VariantLists(n) ==
  UNION {{[i \in 1..k |-> Variant(to_string(i)[1], ds[i])] :
            ds \in [1..k -> Descriptions(MaxDescLen)]} : k \in 1..n}

\* A table type, a floating-point one and one of the `_` arm.
EmitDataTypes == {"String", "Price", "MonthYear"}

EmitFields(n) ==
  {Field(tag, data_type, enums) :
     tag \in Tags, data_type \in EmitDataTypes,
     enums \in {None} \cup {Some(vs) : vs \in VariantLists(n)}}

Init ==
  /\ field \in EmitFields(MaxVariants)
  /\ owned = None /\ lifetime = None /\ emitted = None
  /\ message = None /\ member = None /\ record = None
  /\ dict = None /\ generated = None

FieldDef ==
  \E fefix_path \in FefixPaths :
    /\ emitted' = Some([fefix_path |-> fefix_path,
                        ret |-> field_def(field, fefix_path)])
    /\ UNCHANGED <<field, owned, lifetime, message, member, record, dict,
                   generated>>

Next == FieldDef

Spec == Init /\ [][Next]_vars

\* C5 (as claimed): for every field with enumerated variants the output of
\* field_def holds exactly one enum declaration, after the constant's, with
\* one variant per Enum Variant in the dictionary's order, each carrying its
\* wire value in its doc comment and in its attribute; for a field without
\* variants the output holds the constant's declaration alone.
C5_OneEnumDeclarationInSourceOrder ==
  emitted # None =>
    LET text == emitted[1].ret.text IN
    IF field.enums # None
      THEN /\ Len(text) = 2
           /\ text[1].decl = "const"
           /\ text[2].decl = "enum"
           /\ Len(text[2].variants) = Len(field.enums[1])
           /\ \A i \in 1..Len(field.enums[1]) :
                /\ text[2].variants[i].variant = field.enums[1][i].value
                /\ text[2].variants[i].doc =
                     <<"Field variant '", field.enums[1][i].value, "'.">>
      ELSE /\ Len(text) = 1
           /\ text[1].decl = "const"

\* C5, for the calls of field_def that return: the same statement.
C5_WhenFieldDefReturns ==
  (emitted # None /\ emitted[1].ret.returned)
    => C5_OneEnumDeclarationInSourceOrder

\* C6 (as claimed): field_def returns a text fragment for every field,
\* whatever its data type and the descriptions of its variants, and a data
\* type the table does not know resolves to the raw-bytes type.
C6_FieldDefNeverFails ==
  emitted # None =>
    /\ emitted[1].ret.returned
    /\ (field.data_type = "MonthYear" /\ field.enums = None
        /\ field.tag # ChecksumTag)
         => emitted[1].ret.text[1].type_param = <<"&[u8]">>

\* C6, the part of it that holds: a returning field_def resolves a data type
\* the table does not know to the raw-bytes type.
C6_UnknownDataTypeFallsBack ==
  (emitted # None /\ emitted[1].ret.returned
   /\ field.data_type = "MonthYear" /\ field.enums = None
   /\ field.tag # ChecksumTag)
    => emitted[1].ret.text[1].type_param = <<"&[u8]">>

\* C8 (as claimed): no variant identifier that field_def emits begins with a
\* digit.
C8_NoIdentifierBeginsWithDigit ==
  (emitted # None /\ emitted[1].ret.returned /\ field.enums # None) =>
    \A i \in 1..Len(emitted[1].ret.text[2].variants) :
      LET ident == emitted[1].ret.text[2].variants[i].ident
      IN ident # <<>> => ~is_ascii_digit(ident[1])

\* C8, the guard the code has: a description that itself begins with a digit
\* gets the marker N.
C8_DigitFirstDescriptionIsPrefixed ==
  (emitted # None /\ emitted[1].ret.returned /\ field.enums # None) =>
    \A i \in 1..Len(field.enums[1]) :
      is_ascii_digit(field.enums[1][i].description[1])
        => emitted[1].ret.text[2].variants[i].ident[1] = "N"

(***************************************************************************)
(* Message/Struct Emitter                                                  *)
(***************************************************************************)
\* A Layout Item: kind is "Field" (of carries the Field), "Group" or
\* "Component" (of carries the component's name).
LayoutItem(kind, of, required) ==
  [kind |-> kind, of |-> of, required |-> required]

\* translate_layout_item_to_struct_field letting a group through: the
\* early return of its first match is missing, and the group gets the name
\* and the unit type of its other arms.
translate_layout_item_keeps_group(item, required) ==
  LET field_name == IF item.kind = "Component" THEN to_snake_case(item.of)
                    ELSE IF item.kind = "Group" THEN <<"g","r","o","u","p">>
                    ELSE to_snake_case(item.of.name)
      field_type == IF item.kind = "Field"
                      THEN suggested_type_with_lifetime(item.of.tag,
                                                        item.of.data_type)
                      ELSE <<"()">>
  IN Some([identifier |-> field_name,
           field_type |-> make_type_optional(required, field_type)])

\* translate_layout_item_to_struct_field: None for a group, Some(member) for
\* a component and for a field.
translate_layout_item_to_struct_field(item, required) ==
  IF item.kind = "Group" THEN None
  ELSE
    LET field_name == IF item.kind = "Component" THEN to_snake_case(item.of)
                      ELSE to_snake_case(item.of.name)
        field_type == IF item.kind = "Component" THEN <<"()">>
                      ELSE suggested_type_with_lifetime(item.of.tag,
                                                        item.of.data_type)
    IN Some([identifier |-> field_name,
             field_type |-> make_type_optional(required, field_type)])

\* The members of the struct: the layout mapped through the translation with
\* each item's own required flag, the None filtered out, the rest unwrapped.
RECURSIVE struct_fields(_)
struct_fields(layout) ==
  IF layout = <<>> THEN <<>>
  ELSE translate_layout_item_to_struct_field(layout[1], layout[1].required)
         \o struct_fields(Tail(layout))

\* message(): the struct, with its lifetime marker member, and the impl that
\* holds MSG_TYPE.
message_struct(msg, custom_derive_line) ==
  [custom_derive_line |-> custom_derive_line,
   identifier |-> to_camel_case(msg.name),
   lifetime |-> <<"PhantomData<&'a ()>">>,
   fields |-> struct_fields(msg.layout),
   msg_type |-> msg.msg_type]

(***************************************************************************)
(* message() called on a message                                           *)
(***************************************************************************)
MaxLayout == 2

InstrumentName == <<"I","n","s","t","r","u","m","e","n","t">>

NewOrderSingleName ==
  <<"N","e","w","O","r","d","e","r","S","i","n","g","l","e">>

\* The fields the layouts refer to.
LayoutFields ==
  {Field(ChecksumTag, "String", None), Field(38, "Qty", None),
   Field(90, "Char", Some(BuySell))}

LayoutItems ==
  {LayoutItem("Field", f, required) : f \in LayoutFields, required \in BOOLEAN}
    \cup {LayoutItem("Group", <<>>, required) : required \in BOOLEAN}
    \cup {LayoutItem("Component", InstrumentName, required) :
            required \in BOOLEAN}

Layouts == UNION {[1..n -> LayoutItems] : n \in 0..MaxLayout}

InitMessage ==
  /\ message \in {[name |-> NewOrderSingleName, msg_type |-> "D",
                   layout |-> layout] : layout \in Layouts}
  /\ field = None /\ owned = None /\ lifetime = None /\ emitted = None
  /\ member = None /\ record = None
  /\ dict = None /\ generated = None

\* One step of message()'s closure: the translation of the i-th layout item.
TranslateLayoutItem ==
  \E i \in 1..Len(message.layout) :
    /\ member' = Some([item |-> message.layout[i],
                       ret |-> translate_layout_item_to_struct_field(
                                 message.layout[i],
                                 message.layout[i].required)])
    /\ UNCHANGED <<field, owned, lifetime, emitted, message, record, dict,
                   generated>>

CustomDeriveLines == {"", "#[derive(Clone)]"}

Message ==
  \E custom_derive_line \in CustomDeriveLines :
    /\ record' = Some(message_struct(message, custom_derive_line))
    /\ UNCHANGED <<field, owned, lifetime, emitted, message, member, dict,
                   generated>>

NextMessage == TranslateLayoutItem \/ Message

SpecMessage == InitMessage /\ [][NextMessage]_vars

\* The items of a layout of the given kinds, in layout order.
ItemsOfKind(layout, kinds) ==
  SelectSeq(layout, LAMBDA item : item.kind \in kinds)

IsWrapped(typ) ==
  /\ Len(typ) >= 3
  /\ typ[1] = "::std::option::Option<"
  /\ typ[Len(typ)] = ">"

C4_OptionalExactlyWhenNotRequired ==
  /\ (member # None /\ member[1].item.kind = "Field") =>
       LET typ == member[1].ret[1].field_type
           resolved == suggested_type_with_lifetime(member[1].item.of.tag,
                                                    member[1].item.of.data_type)
       IN /\ IsWrapped(typ) <=> ~member[1].item.required
          /\ member[1].item.required => typ = resolved
          /\ ~member[1].item.required
               => SubSeq(typ, 2, Len(typ) - 1) = resolved
  /\ record # None =>
       LET items == ItemsOfKind(message.layout, {"Field", "Component"}) IN
       \A k \in 1..Len(items) :
         (k <= Len(record[1].fields) /\ items[k].kind = "Field") =>
           (IsWrapped(record[1].fields[k].field_type) <=> ~items[k].required)

\* message() has emitted the struct of a layout that holds the same Field
\* twice, required and then optional: the first member is bare, the second
\* wrapped.
C4_Witness ==
  /\ record # None
  /\ Len(message.layout) = 2
  /\ message.layout[1].kind = "Field" /\ message.layout[2].kind = "Field"
  /\ message.layout[1].of = message.layout[2].of
  /\ message.layout[1].required /\ ~message.layout[2].required
  /\ Len(record[1].fields) = 2
  /\ ~IsWrapped(record[1].fields[1].field_type)
  /\ IsWrapped(record[1].fields[2].field_type)

(***************************************************************************)
(* File Assembler                                                          *)
(***************************************************************************)
\* generated_code_notice(): the banner, with the generator's version and
\* the time of the call.
generated_code_notice(now) ==
  <<"// Generated automatically by FerrumFIX ", "CARGO_PKG_VERSION", " on ",
    now, ".">>

\* The field definitions of fields(): field_def mapped over the dictionary's
\* fields in iteration order; Panicked as soon as one call panics.
RECURSIVE field_defs(_, _)
field_defs(fs, fefix_path) ==
  IF fs = <<>> THEN Returned(<<>>)
  ELSE LET head == field_def(fs[1], fefix_path)
           rest == field_defs(Tail(fs), fefix_path)
       IN IF head.returned /\ rest.returned
            THEN Returned(<<head.text>> \o rest.text)
            ELSE Panicked

\* fields(): the module documentation, the notice, the imports and the
\* field definitions.
fields(d, fefix_path, now) ==
  LET defs == field_defs(d.fields, fefix_path) IN
  IF ~defs.returned THEN Panicked
  ELSE Returned(
    [version |-> d.version,
     notice |-> generated_code_notice(now),
     imports |-> <<<<"use ", fefix_path, "::{FieldDef, FieldLocation, TagU16};">>,
                   <<"use ", fefix_path, "::{DataType, Buffer};">>,
                   IF fefix_path = "fefix" THEN <<"use fefix::DataField;">>
                   ELSE <<"use crate::DataField;">>,
                   <<"use std::marker::PhantomData;">>>>,
     field_defs |-> defs.text])

(***************************************************************************)
(* fields() called on a dictionary under the two import styles             *)
(***************************************************************************)
MaxFields == 2

DictDataTypes == {"Price", "UtcTimestamp"}

DictEnums == {None, Some(BuySell), Some(<<Variant("1", <<>>)>>)}

DictFields ==
  {Field(tag, data_type, enums) :
     tag \in Tags, data_type \in DictDataTypes, enums \in DictEnums}

\* The field lists of a dictionary: its fields are unique by tag.
FieldLists ==
  {fs \in UNION {[1..n -> DictFields] : n \in 0..MaxFields} :
     \A i, j \in 1..Len(fs) : i # j => fs[i].tag # fs[j].tag}

\* The times at which fields() is called.
Times == {"Thu, 01 Jan 2026 00:00:00 +0000", "Thu, 01 Jan 2026 00:00:01 +0000"}

InitFields ==
  /\ dict \in {[version |-> "FIX-4.2", fields |-> fs] : fs \in FieldLists}
  /\ generated = [fefix_path \in FefixPaths |-> None]
  /\ field = None /\ owned = None /\ lifetime = None /\ emitted = None
  /\ message = None /\ member = None /\ record = None

Fields ==
  \E fefix_path \in FefixPaths, now \in Times :
    /\ generated' = [generated EXCEPT
                       ![fefix_path] = Some(fields(dict, fefix_path, now))]
    /\ UNCHANGED <<field, owned, lifetime, emitted, message, member, record,
                   dict>>

NextFields == Fields

SpecFields == InitFields /\ [][NextFields]_vars

\* fields() has returned under both import styles.
BothGenerated ==
  /\ generated["fefix"] # None /\ generated["fefix"][1].returned
  /\ generated["crate"] # None /\ generated["crate"][1].returned

\* C7 (as claimed): under the two import styles the outputs of fields()
\* differ only in the import statements; the field definitions, with the
\* type parameter of each constant, are identical.  (The time in the notice
\* is the call's, not the style's, and is left aside.)
C7_OnlyImportsDiffer ==
  BothGenerated =>
    /\ generated["fefix"][1].text.version = generated["crate"][1].text.version
    /\ generated["fefix"][1].text.field_defs
         = generated["crate"][1].text.field_defs

\* One declaration under the two styles: the same, but for the type
\* parameter of a constant, which is the same unless it is a dtf type, and
\* then the same type of dtf qualified by each style's own path.
SameButDtfPath(a, b) ==
  IF a.decl = "const" /\ b.decl = "const"
    THEN /\ [a EXCEPT !.type_param = <<>>] = [b EXCEPT !.type_param = <<>>]
         /\ IF TypeClass(a.type_param) \in DtfClasses
              THEN /\ a.type_param = <<"fefix", b.type_param[2]>>
                   /\ b.type_param = <<"crate", a.type_param[2]>>
              ELSE a.type_param = b.type_param
    ELSE a = b

\* C7 (amended): under the two import styles fields() fails or returns
\* alike, and the outputs differ only in the import statements, in the time
\* of the notice, and in the path that qualifies the dtf types (CheckSum,
\* Date, Time, Timestamp) where one is the type parameter of a field's
\* constant: that path is the import style's own; every other emitted name,
\* the enum's name as a type parameter included, is identical.
C7_OnlyImportsAndDtfPathsDiffer ==
  (generated["fefix"] # None /\ generated["crate"] # None) =>
    /\ generated["fefix"][1].returned = generated["crate"][1].returned
    /\ BothGenerated =>
         LET a == generated["fefix"][1].text
             b == generated["crate"][1].text
         IN /\ a.version = b.version
            /\ Len(a.field_defs) = Len(b.field_defs)
            /\ \A i \in 1..Len(a.field_defs) :
                 /\ Len(a.field_defs[i]) = Len(b.field_defs[i])
                 /\ \A k \in 1..Len(a.field_defs[i]) :
                      SameButDtfPath(a.field_defs[i][k], b.field_defs[i][k])

\* fields() has returned under both styles for a dictionary with a timestamp
\* field without variants and a field with variants: the first constant's
\* type parameter is the dtf type under each style's path, the second's is
\* the enum's name under both.
C7_Witness ==
  /\ BothGenerated
  /\ Len(dict.fields) = 2
  /\ dict.fields[1].data_type = "UtcTimestamp" /\ dict.fields[1].enums = None
  /\ dict.fields[1].tag # ChecksumTag
  /\ dict.fields[2].enums = Some(BuySell)
  /\ generated["fefix"][1].text.field_defs[1][1].type_param
       = <<"fefix", "::dtf::Timestamp">>
  /\ generated["crate"][1].text.field_defs[1][1].type_param
       = <<"crate", "::dtf::Timestamp">>
  /\ generated["fefix"][1].text.field_defs[2][1].type_param
       = generated["crate"][1].text.field_defs[2][1].type_param

====
